---- MODULE Spec2Model ----
(***************************************************************************)
(* State-machine model of tqdm/contrib/concurrent.py: one call of          *)
(* thread_map or process_map, from the entry point, through the option     *)
(* resolution of _executor_map, the construction of the worker pool, the   *)
(* eager submission done by Executor.map, the workers, the ordered         *)
(* consumption by list(tqdm_class(...)) and the exit of the with block.    *)
(*                                                                         *)
(* The pool (concurrent.futures) and the progress display (tqdm_class) are *)
(* collaborators the file only calls; their steps are modelled from their  *)
(* documented contract as section 4.1/5 of the specification states it.    *)
(***************************************************************************)
EXTENDS Integers, Sequences, FiniteSets, TLC

\* ------------------------------------------------------------- bounds
\* Longest input sequence whose items are executed one by one.
MaxItems == 3
\* Largest max_workers a caller passes in the execution specification.
MaxWorkers == 2

\* -------------------------------------------------- program constants
WarnLength == 1000
WorkerCap == 32
Headroom == 4
FallbackCpus == 4
DefaultChunksize == 1

VARIABLES
    kind,         \* entry point called: "thread" (thread_map) | "process" (process_map)
    iterables,    \* *iterables: sequence of input iterables
    tqdm_kwargs,  \* **tqdm_kwargs as the caller passed them
    raising,      \* fn raises exactly on the tuples whose first argument is in this set
    cpu,          \* what cpu_count resolves to on this platform
    py37,         \* sys.version_info[:2] >= (3, 7)
    pc,           \* position of the calling thread
    warnings,     \* number of RuntimeWarnings emitted by warn()
    lenQueried,   \* the calls that took len() of the first iterable: "length_hint" (line 86), "len" (line 34)
    exc,          \* the exception propagating out of the call
    retval,       \* the value returned by the call
    kwargs,       \* local kwargs of _executor_map
    tqdm_class,   \* local tqdm_class
    max_workers,  \* local max_workers
    chunksize,    \* local chunksize
    pool,         \* the PoolExecutor built at line 43
    workers,      \* the pool's workers
    tasks,        \* the futures created by ex.map, in submission order
    nextTask,     \* index of the next future the result iterator waits for
    chunkBuf,     \* results of the current chunk not yet yielded
    result,       \* the list being built by list(...)
    displayN,     \* the display's counter n
    display,      \* the options the display was constructed with
    runs,         \* how many times fn was called per first argument
    overtaken     \* some future finished while an earlier one had not

vars == <<kind, iterables, tqdm_kwargs, raising, cpu, py37, pc, warnings,
          lenQueried, exc, retval, kwargs, tqdm_class, max_workers, chunksize,
          pool, workers, tasks, nextTask, chunkBuf, result, displayN, display,
          runs, overtaken>>

inputVars == <<kind, iterables, tqdm_kwargs, raising, cpu, py37>>
localVars == <<kwargs, tqdm_class, max_workers, chunksize>>
poolVars == <<pool, workers, tasks>>
consumeVars == <<nextTask, chunkBuf, result, displayN, display>>

\* ------------------------------------------------------------ helpers
Min(a, b) == IF a <= b THEN a ELSE b

SetMax(S) == CHOOSE m \in S : \A x \in S : x <= m

RECURSIVE SumSeq(_)
SumSeq(s) == IF s = <<>> THEN 0 ELSE Head(s) + SumSeq(Tail(s))

EmptyKw == [n \in {} |-> 0]

Without(kw, names) == [n \in (DOMAIN kw) \ names |-> kw[n]]

\* -------------------------------------------------------- input values
\* An iterable: "sized" has __len__; "unbounded" never ends; "count" is the
\* number of items it yields; "hint" is what __length_hint__ answers.
Sized(n) == [sized |-> TRUE, unbounded |-> FALSE, count |-> n, hint |-> n]
Lazy(n, h) == [sized |-> FALSE, unbounded |-> FALSE, count |-> n, hint |-> h]
Endless == [sized |-> FALSE, unbounded |-> TRUE, count |-> 0, hint |-> 0]

\* The i-th item of the k-th iterable (distinct per position and per iterable).
Item(k, i) == 10 * (k - 1) + i

NoExc == [src |-> "none", arg |-> 0]
TypeErrorDeepcopy == [src |-> "deepcopy", arg |-> 0]
TypeErrorLen == [src |-> "len", arg |-> 0]
IndexErrorIterables == [src |-> "index", arg |-> 0]
TypeErrorCpuCount == [src |-> "cpu_count", arg |-> 0]
DisplayError == [src |-> "display", arg |-> 0]
FnError(x) == [src |-> "fn", arg |-> x]

NoReturn == [set |-> FALSE, list |-> <<>>]
NoPool == [state |-> "none", max_workers |-> 0, initializer |-> FALSE, initargs |-> "none"]
NoDisplay == [built |-> FALSE, options |-> EmptyKw]

CallerLock == "caller_lock"
WorkerOwnLock == "worker_lock"

\* ------------------------------------------------- lines 7-22: imports
\* cpu_count() (lines 7-14): os/multiprocessing's function, or the constant 4
\* when neither can be imported. os.cpu_count() answers None when the
\* number of CPUs is undetermined; "none" stands for that answer.
CpuCountIsNone == cpu.status = "none"
cpu_count == IF cpu.status = "import_error" THEN FallbackCpus ELSE cpu.n

\* length_hint(it) (lines 15-22): len(it) when defined, else the hint
\* (0 by default).
length_hint(it) == IF it.sized THEN it.count ELSE it.hint

\* ------------------------------------------- lines 32-37: _executor_map
\* deepcopy of one option value: a stream gets a new identity, every other
\* value (numbers, strings, classes) is copied to an equal value.
DeepCopyValue(name, v) == IF name = "file" THEN [v EXCEPT !.id = @ + 1] ELSE v

\* deepcopy raises TypeError on a stream that cannot be pickled.
CanDeepCopy(kw) == "file" \in DOMAIN kw => kw["file"].copyable

DeepCopy(kw) == [n \in DOMAIN kw |-> DeepCopyValue(n, kw[n])]

\* faulty variant: total is always taken from the first iterable
OverwriteTotal(kw, its) == (("total" :> its[1].count) @@ kw)

\* line 33-34
WithTotal(kw, its) == IF "total" \in DOMAIN kw THEN kw ELSE kw @@ ("total" :> its[1].count)

\* line 35
PopTqdmClass(kw) == IF "tqdm_class" \in DOMAIN kw THEN kw["tqdm_class"] ELSE "tqdm_auto"

\* line 36: the default argument of pop
DefaultMaxWorkers == Min(WorkerCap, cpu_count + Headroom)

PopMaxWorkers(kw) == IF "max_workers" \in DOMAIN kw THEN kw["max_workers"] ELSE DefaultMaxWorkers

\* line 37
PopChunksize(kw) == IF "chunksize" \in DOMAIN kw THEN kw["chunksize"] ELSE DefaultChunksize

\* what is left in kwargs after the three pops
Popped(kw) == Without(kw, {"tqdm_class", "max_workers", "chunksize"})

\* faulty variant: the lock is not shared with the workers
PoolKwargsNoInitializer(mw) == [state |-> "open", max_workers |-> mw, initializer |-> FALSE, initargs |-> "none"]

\* lines 38-42
PoolKwargs(mw) == [state |-> "open", max_workers |-> mw, initializer |-> py37, initargs |-> IF py37 THEN CallerLock ELSE "none"]

\* ------------------------------------------- lines 83-94: process_map
NeedsHint(kw, its) == Len(its) > 0 /\ "chunksize" \notin DOMAIN kw

longest_iterable_len(its) == SetMax({length_hint(its[k]) : k \in 1..Len(its)})

\* faulty variant: the threshold is exclusive
ShouldWarnAbove(kw, its) == NeedsHint(kw, its) /\ longest_iterable_len(its) > WarnLength

ShouldWarn(kw, its) == NeedsHint(kw, its) /\ longest_iterable_len(its) >= WarnLength

\* ---------------------------------------------------------- actions
Raise(e) ==
    /\ pc' = "raised"
    /\ exc' = e

\* thread_map (lines 47-62)
ThreadMap ==
    /\ pc = "call"
    /\ kind = "thread"
    /\ pc' = "executor_map"
    /\ UNCHANGED <<inputVars, warnings, lenQueried, exc, retval, localVars, poolVars, consumeVars, runs, overtaken>>

\* process_map (lines 65-95)
ProcessMap ==
    /\ pc = "call"
    /\ kind = "process"
    /\ warnings' = IF ShouldWarn(tqdm_kwargs, iterables) THEN warnings + 1 ELSE warnings
    /\ lenQueried' = IF NeedsHint(tqdm_kwargs, iterables) /\ iterables[1].sized
                       THEN lenQueried \cup {"length_hint"} ELSE lenQueried
    /\ pc' = "executor_map"
    /\ UNCHANGED <<inputVars, exc, retval, localVars, poolVars, consumeVars, runs, overtaken>>

\* _executor_map, lines 32-37
ResolveOptions ==
    /\ pc = "executor_map"
    /\ IF ~CanDeepCopy(tqdm_kwargs)
         THEN /\ Raise(TypeErrorDeepcopy)
              /\ UNCHANGED <<lenQueried, localVars>>
       ELSE IF "total" \notin DOMAIN tqdm_kwargs /\ Len(iterables) = 0
         THEN /\ Raise(IndexErrorIterables)
              /\ UNCHANGED <<lenQueried, localVars>>
       ELSE IF "total" \notin DOMAIN tqdm_kwargs /\ ~iterables[1].sized
         THEN /\ Raise(TypeErrorLen)
              /\ lenQueried' = lenQueried \cup {"len"}
              /\ UNCHANGED localVars
       ELSE LET kw == WithTotal(DeepCopy(tqdm_kwargs), iterables)
            IN  /\ lenQueried' = IF "total" \in DOMAIN tqdm_kwargs THEN lenQueried ELSE lenQueried \cup {"len"}
                /\ IF CpuCountIsNone
                     THEN /\ Raise(TypeErrorCpuCount)
                          /\ UNCHANGED localVars
                     ELSE /\ tqdm_class' = PopTqdmClass(kw)
                          /\ max_workers' = PopMaxWorkers(kw)
                          /\ chunksize' = PopChunksize(kw)
                          /\ kwargs' = Popped(kw)
                          /\ pc' = "pool_kwargs"
                          /\ exc' = exc
    /\ UNCHANGED <<inputVars, warnings, retval, poolVars, consumeVars, runs, overtaken>>

\* _executor_map, lines 38-43: pool_kwargs and PoolExecutor(**pool_kwargs)
ConstructPool ==
    /\ pc = "pool_kwargs"
    /\ pool' = PoolKwargs(max_workers)
    /\ pc' = "map"
    /\ UNCHANGED <<inputVars, warnings, lenQueried, exc, retval, localVars, workers, tasks, consumeVars, runs, overtaken>>

\* ------------------------------------ line 44: ex.map(fn, *iterables)
\* fn: returns a value computed from all its arguments, or raises when its
\* first argument is in `raising`.
FnRaises(args) == args[1] \in raising

FnValue(args) == 100 + SumSeq(args)

\* faulty variant: only the first iterable is handed to ex.map
MapFirstIterableOnly(its) == IF Len(its) = 0 THEN its ELSE <<its[1]>>

\* the iterables handed to ex.map
MapIterables(its) == its

AllUnbounded(its) == \A k \in 1..Len(its) : its[k].unbounded

\* number of tuples zip(*its) yields when some iterable ends
ZipLen(its) ==
    IF Len(its) = 0 \/ AllUnbounded(its) THEN 0
    ELSE CHOOSE n \in {its[k].count : k \in {j \in 1..Len(its) : ~its[j].unbounded}} :
            \A k \in 1..Len(its) : its[k].unbounded \/ n <= its[k].count

ZipItem(its, i) == [k \in 1..Len(its) |-> Item(k, i)]

\* items per future: ProcessPoolExecutor.map batches by chunksize,
\* ThreadPoolExecutor.map ignores chunksize
TaskSize == IF kind = "process" THEN chunksize ELSE 1

\* the futures ex.map creates: one per chunk of TaskSize consecutive tuples
\* of zip(*iterables), in input order
NumTasks(its) == (ZipLen(its) + TaskSize - 1) \div TaskSize

ChunkOf(its, t) ==
    [i \in 1..(Min(t * TaskSize, ZipLen(its)) - (t - 1) * TaskSize) |->
        ZipItem(its, (t - 1) * TaskSize + i)]

\* tqdm_class(ex.map(fn, *iterables, chunksize=chunksize), **kwargs):
\* ex.map submits every tuple of zip(*iterables) before it returns its
\* result iterator (over iterables that never end it does not return), and
\* the display is built around that iterator with the options left in
\* kwargs. Worker steps taken while the caller is still submitting commute
\* with the submissions, so the caller's part is one step.
Submit ==
    /\ pc = "map"
    /\ LET its == MapIterables(iterables)
       IN  /\ ~(Len(its) > 0 /\ AllUnbounded(its))
           /\ tasks' = [t \in 1..NumTasks(its) |->
                  [args |-> ChunkOf(its, t), status |-> "pending", out |-> <<>>, err |-> NoExc]]
    /\ display' = [built |-> TRUE, options |-> kwargs]
    /\ pc' = "consume"
    /\ UNCHANGED <<inputVars, warnings, lenQueried, exc, retval, localVars, pool, workers, nextTask, chunkBuf, result, displayN, runs, overtaken>>

\* ------------------------------------------------------- the workers
HasPending == \E t \in 1..Len(tasks) : tasks[t].status = "pending"

FirstPending == CHOOSE t \in 1..Len(tasks) :
    /\ tasks[t].status = "pending"
    /\ \A u \in 1..(t - 1) : tasks[u].status # "pending"

\* the lock set_lock leaves in a worker that ran initializer(*initargs)
InitializedLock(own) == IF pool.initializer THEN pool.initargs ELSE own

\* a worker thread/process is started once work has been submitted; before
\* it takes any work it runs initializer(*initargs), when the pool was given
\* one. A thread shares the caller's tqdm_class; a process has its own.
SpawnWorker(w) ==
    /\ pool.state \in {"open", "shutting"}
    /\ w <= pool.max_workers
    /\ workers[w].status = "unborn"
    /\ \A v \in 1..(w - 1) : workers[v].status # "unborn"
    /\ HasPending
    /\ workers' = [workers EXCEPT ![w] =
           [status |-> "idle",
            lock |-> InitializedLock(IF kind = "thread" THEN CallerLock ELSE WorkerOwnLock),
            inited |-> pool.initializer]]
    /\ UNCHANGED <<inputVars, pc, warnings, lenQueried, exc, retval, localVars, pool, tasks, consumeVars, runs, overtaken>>

\* an idle worker takes the oldest pending future (idle workers are
\* interchangeable: the one with the lowest number takes it)
TakeTask(w) ==
    /\ workers[w].status = "idle"
    /\ \A v \in 1..(w - 1) : workers[v].status # "idle"
    /\ HasPending
    /\ workers' = [workers EXCEPT ![w] = [@ EXCEPT !.status = "busy"]]
    /\ tasks' = [tasks EXCEPT ![FirstPending] = [@ EXCEPT !.status = "running"]]
    /\ UNCHANGED <<inputVars, pc, warnings, lenQueried, exc, retval, localVars, pool, consumeVars, runs, overtaken>>

\* position in the chunk of the first tuple fn raises on (0: none)
FirstFailing(chunk) ==
    IF \E i \in 1..Len(chunk) : FnRaises(chunk[i])
      THEN CHOOSE i \in 1..Len(chunk) :
             FnRaises(chunk[i]) /\ \A j \in 1..(i - 1) : ~FnRaises(chunk[j])
      ELSE 0

\* a worker applies fn to the tuples of its future t, in order, and stops at
\* the first that raises; the worker is idle again (busy workers are
\* interchangeable: the one with the lowest number is taken to be t's)
FinishTask(t) ==
    /\ t <= Len(tasks)
    /\ tasks[t].status = "running"
    /\ LET chunk == tasks[t].args
           f == FirstFailing(chunk)
           ran == IF f = 0 THEN Len(chunk) ELSE f
           w == CHOOSE v \in DOMAIN workers :
                  /\ workers[v].status = "busy"
                  /\ \A u \in 1..(v - 1) : workers[u].status # "busy"
       IN  /\ tasks' = [tasks EXCEPT ![t] =
                  IF f = 0
                    THEN [@ EXCEPT !.status = "done", !.out = [i \in 1..Len(chunk) |-> FnValue(chunk[i])]]
                    ELSE [@ EXCEPT !.status = "failed", !.err = FnError(chunk[f][1])]]
           /\ runs' = [x \in DOMAIN runs |->
                         IF \E i \in 1..ran : chunk[i][1] = x THEN runs[x] + 1 ELSE runs[x]]
           /\ workers' = [workers EXCEPT ![w] = [@ EXCEPT !.status = "idle"]]
    /\ overtaken' = (overtaken \/ \E u \in 1..(t - 1) : tasks[u].status \in {"pending", "running"})
    /\ UNCHANGED <<inputVars, pc, warnings, lenQueried, exc, retval, localVars, pool, consumeVars>>

\* after shutdown was requested an idle worker with nothing left to do ends
WorkerExit(w) ==
    /\ pool.state = "shutting"
    /\ workers[w].status = "idle"
    /\ \A v \in 1..(w - 1) : workers[v].status # "idle"
    /\ ~HasPending
    /\ workers' = [workers EXCEPT ![w] = [@ EXCEPT !.status = "exited"]]
    /\ UNCHANGED <<inputVars, pc, warnings, lenQueried, exc, retval, localVars, pool, tasks, consumeVars, runs, overtaken>>

\* ----------------------------- line 44: list(tqdm_class(iterator, ...))
\* faulty variant: the newest value is put in front
CollectInFront(lst, v) == <<v>> \o lst

\* list() appends each value it is given
Collect(lst, v) == Append(lst, v)

\* leaving the with block calls ex.shutdown(wait=True)
EnterExit ==
    /\ pc' = "exit"
    /\ pool' = [pool EXCEPT !.state = "shutting"]

\* the display counts one more unit per item it yields
Advance(n) == n + 1

\* faulty variant: results are taken as they complete (the newest finished future)
NewestFinished ==
    IF \E t \in nextTask..Len(tasks) : tasks[t].status \in {"done", "failed"}
      THEN CHOOSE t \in nextTask..Len(tasks) :
             /\ tasks[t].status \in {"done", "failed"}
             /\ \A u \in (t + 1)..Len(tasks) : tasks[u].status \notin {"done", "failed"}
      ELSE nextTask

\* the future whose result the iterator of ex.map hands out next: the
\* oldest not yet handed out, whatever finished first
NextFuture == nextTask

\* the display yields the next result and advances by one
Yield ==
    /\ pc = "consume"
    /\ IF chunkBuf # <<>>
         THEN /\ result' = Collect(result, Head(chunkBuf))
              /\ chunkBuf' = Tail(chunkBuf)
              /\ nextTask' = nextTask
         ELSE /\ nextTask <= Len(tasks)
              /\ tasks[NextFuture].status = "done"
              /\ result' = Collect(result, Head(tasks[NextFuture].out))
              /\ chunkBuf' = Tail(tasks[NextFuture].out)
              /\ nextTask' = nextTask + 1
    /\ displayN' = Advance(displayN)
    /\ UNCHANGED <<inputVars, pc, warnings, lenQueried, exc, retval, localVars, poolVars, display, runs, overtaken>>

\* faulty variant: the exception is swallowed and what was collected is returned
ReturnPartial(e, partial) == [exc |-> NoExc, retval |-> [set |-> TRUE, list |-> partial]]

\* what the call does with the exception of a failed future: nothing
\* catches it, so it leaves the with block and no list is returned
OnError(e, partial) == [exc |-> e, retval |-> NoReturn]

\* the next future in input order failed: its exception is raised in the
\* caller and the result iterator cancels the futures still pending
ResultRaises ==
    /\ pc = "consume"
    /\ chunkBuf = <<>>
    /\ nextTask <= Len(tasks)
    /\ tasks[NextFuture].status = "failed"
    /\ exc' = OnError(tasks[NextFuture].err, result).exc
    /\ retval' = OnError(tasks[NextFuture].err, result).retval
    /\ tasks' = [t \in 1..Len(tasks) |->
                   IF tasks[t].status = "pending" THEN [tasks[t] EXCEPT !.status = "cancelled"] ELSE tasks[t]]
    /\ EnterExit
    /\ UNCHANGED <<inputVars, warnings, lenQueried, localVars, workers, consumeVars, runs, overtaken>>

\* the display raises while results are consumed
DisplayRaises ==
    /\ pc = "consume"
    /\ exc' = DisplayError
    /\ EnterExit
    /\ UNCHANGED <<inputVars, warnings, lenQueried, retval, localVars, workers, tasks, consumeVars, runs, overtaken>>

\* the iterator is exhausted: return list(...)
ReturnList ==
    /\ pc = "consume"
    /\ chunkBuf = <<>>
    /\ nextTask > Len(tasks)
    /\ retval' = [set |-> TRUE, list |-> result]
    /\ EnterExit
    /\ UNCHANGED <<inputVars, warnings, lenQueried, exc, localVars, workers, tasks, consumeVars, runs, overtaken>>

\* faulty variant: shutdown(wait=False), the call does not wait for the workers
NoJoin == TRUE

\* shutdown(wait=True) returns once every worker has ended
AllJoined ==
    /\ ~HasPending
    /\ \A w \in DOMAIN workers : workers[w].status \in {"unborn", "exited"}

\* __exit__ returns and control goes back to the caller
WithExit ==
    /\ pc = "exit"
    /\ AllJoined
    /\ pool' = [pool EXCEPT !.state = "shutdown"]
    /\ pc' = IF exc = NoExc THEN "returned" ELSE "raised"
    /\ UNCHANGED <<inputVars, warnings, lenQueried, exc, retval, localVars, workers, tasks, consumeVars, runs, overtaken>>

\* ------------------------------------------------------ initial states
InitRest ==
    /\ pc = "call"
    /\ warnings = 0
    /\ lenQueried = {}
    /\ exc = NoExc
    /\ retval = NoReturn
    /\ kwargs = EmptyKw
    /\ tqdm_class = "unset"
    /\ max_workers = 0
    /\ chunksize = 0
    /\ pool = NoPool
    /\ workers = [w \in 1..MaxWorkers |-> [status |-> "unborn", lock |-> "none", inited |-> FALSE]]
    /\ tasks = <<>>
    /\ nextTask = 1
    /\ chunkBuf = <<>>
    /\ result = <<>>
    /\ displayN = 0
    /\ display = NoDisplay
    /\ runs = [x \in 1..MaxItems |-> 0]
    /\ overtaken = FALSE

Opt(name, values) == {EmptyKw} \cup {name :> v : v \in values}

Streams == {[id |-> 1, copyable |-> TRUE], [id |-> 1, copyable |-> FALSE]}

\* Calls whose option resolution is explored in full; their items are not run.
CfgKwargs ==
    {t @@ m @@ c @@ k @@ f :
        t \in Opt("total", {5}), m \in Opt("max_workers", {1, 40}),
        c \in Opt("chunksize", {1, 2}), k \in Opt("tqdm_class", {"custom_tqdm"}),
        f \in Opt("file", Streams)}

CfgLengths == {0, 2, WarnLength - 1, WarnLength, WarnLength + 1}

CfgFirst == {Sized(n) : n \in CfgLengths} \cup {Lazy(2, 0), Lazy(WarnLength, WarnLength), Endless}

CfgIterables ==
    {<<a>> : a \in CfgFirst}
        \cup {<<a, b>> : a \in CfgFirst, b \in {Sized(1), Sized(WarnLength)}}

CfgCpu ==
    {[status |-> "import_error", n |-> 0], [status |-> "none", n |-> 0]}
        \cup {[status |-> "ok", n |-> n] : n \in {1, WorkerCap - Headroom, 2 * WorkerCap}}

InitCfg ==
    /\ kind \in {"thread", "process"}
    /\ iterables \in CfgIterables
    /\ tqdm_kwargs \in CfgKwargs
    /\ raising = {}
    /\ cpu \in CfgCpu
    /\ py37 \in BOOLEAN
    /\ InitRest

NextCfg == ThreadMap \/ ProcessMap \/ ResolveOptions \/ ConstructPool

SpecCfg == InitCfg /\ [][NextCfg]_vars

\* Calls whose items are executed one by one.
RunKwargs ==
    {t @@ m @@ c @@ f :
        t \in Opt("total", {1}), m \in {"max_workers" :> n : n \in 1..MaxWorkers},
        c \in Opt("chunksize", {2}), f \in Opt("file", Streams)}

RunFirst == {Sized(n) : n \in 0..MaxItems} \cup {Lazy(MaxItems, 0), Endless}

RunIterables == {<<a>> : a \in RunFirst} \cup {<<a, b>> : a \in RunFirst, b \in {Sized(MaxItems - 1)}}

Init ==
    /\ kind \in {"thread", "process"}
    /\ iterables \in RunIterables
    /\ tqdm_kwargs \in RunKwargs
    /\ raising \in SUBSET (1..ZipLen(iterables))
    /\ cpu = [status |-> "ok", n |-> 4]
    /\ py37 \in BOOLEAN
    /\ InitRest

Next ==
    \/ ThreadMap
    \/ ProcessMap
    \/ ResolveOptions
    \/ ConstructPool
    \/ Submit
    \/ \E w \in 1..MaxWorkers : SpawnWorker(w)
    \/ \E w \in 1..MaxWorkers : TakeTask(w)
    \/ \E t \in 1..MaxItems : FinishTask(t)
    \/ \E w \in 1..MaxWorkers : WorkerExit(w)
    \/ Yield
    \/ ResultRaises
    \/ DisplayRaises
    \/ ReturnList
    \/ WithExit

Spec == Init /\ [][Next]_vars

\* ------------------------------------------------------------- claims
Ended == pc \in {"returned", "raised"}

\* the list map(fn, *iterables) computes sequentially
SequentialMap == [i \in 1..ZipLen(iterables) |-> FnValue(ZipItem(iterables, i))]

\* smallest first argument fn raises on (raising is not empty)
MinRaising == CHOOSE x \in raising : \A y \in raising : x <= y

\* number of items of the futures that finished with a value
CompletedItems == SumSeq([t \in 1..Len(tasks) |-> IF tasks[t].status = "done" THEN Len(tasks[t].args) ELSE 0])

OptionGiven(name) == name \in DOMAIN tqdm_kwargs

\* C1: a call that returns gives the list of the sequential map(fn, *iterables):
\* result[i] = fn(seq_1[i], ..., seq_k[i]) for every i, whatever the pool kind,
\* max_workers, chunksize and the order in which the workers finished.
C1_SequentialEquivalent ==
    pc = "returned" => retval.set /\ retval.list = SequentialMap

\* C1 witness: a thread_map or process_map call over two sequences of equal
\* length returned all results although a later future finished first.
C1_Witness ==
    /\ pc = "returned"
    /\ Len(iterables) = 2
    /\ iterables[1].count = iterables[2].count
    /\ Len(retval.list) >= 2
    /\ overtaken

\* C2: when fn raises for an element the call ends by raising (fn's exception
\* for a raising element, unless the display itself raised first), no list
\* is returned, and fn is called at most once per element.
C2_FnErrorPropagates ==
    /\ \A x \in DOMAIN runs : runs[x] <= 1
    /\ (Ended /\ display.built /\ raising # {}) =>
          /\ pc = "raised"
          /\ ~retval.set
          /\ exc.src \in {"fn", "display"}
          /\ exc.src = "fn" => exc.arg \in raising /\ runs[exc.arg] = 1

\* C2 witness: results had been collected when fn's exception ended the call.
C2_Witness ==
    /\ pc = "raised"
    /\ exc.src = "fn"
    /\ Len(result) >= 1
    /\ ~retval.set

\* C3: once the pool is constructed, the call hands control back only after
\* the pool is shut down and every worker has ended, on every exit path.
C3_PoolShutDownOnExit ==
    (Ended /\ pool.state # "none") =>
        /\ pool.state = "shutdown"
        /\ \A w \in DOMAIN workers : workers[w].status \in {"unborn", "exited"}
        /\ \A t \in 1..Len(tasks) : tasks[t].status \notin {"pending", "running"}

\* C3 witness: the display raised while futures were still to be run, and
\* the call raised only after two workers had ended.
C3_Witness ==
    /\ pc = "raised"
    /\ exc.src = "display"
    /\ displayN < CompletedItems
    /\ \E w \in DOMAIN workers : w >= 2 /\ workers[w].status = "exited"

\* C8: when the pool takes a per-worker initializer, every worker that runs a
\* work item has run set_lock with the caller's lock before; the workers of
\* a thread pool hold the caller's lock in any case.
C8_WorkersShareLock ==
    \A w \in DOMAIN workers :
        /\ (py37 /\ workers[w].status = "busy") =>
              workers[w].inited /\ workers[w].lock = CallerLock
        /\ (kind = "thread" /\ workers[w].status # "unborn") => workers[w].lock = CallerLock

\* C8 witness: a process worker runs a work item holding the caller's lock.
C8_Witness ==
    /\ kind = "process"
    /\ py37
    /\ \E w \in DOMAIN workers : workers[w].status = "busy" /\ workers[w].lock = CallerLock

\* first position of the chunk (future) that holds item x, minus one: the
\* number of items in the futures before it
ItemsBeforeChunkOf(x) == ((x - 1) \div TaskSize) * TaskSize

\* C9 as stated: the exception raised is that of the raising element with the
\* smallest input index, and the results of all elements before that index
\* have been consumed, in order, when it surfaces.
C9_AllEarlierResultsConsumed ==
    (pc = "raised" /\ exc.src = "fn") =>
        /\ exc = FnError(MinRaising)
        /\ result = [i \in 1..(MinRaising - 1) |-> SequentialMap[i]]

\* C9 amended: the exception raised is that of the raising element with the
\* smallest input index, and what has been consumed when it surfaces is, in
\* order, the results of the elements of the futures before that element's
\* future: all earlier elements for a thread pool or chunksize 1, and for a
\* process pool with chunksize > 1 only those of the earlier chunks (the
\* earlier results of the failing chunk are lost with it).
C9_EarlierChunksConsumed ==
    (pc = "raised" /\ exc.src = "fn") =>
        /\ exc = FnError(MinRaising)
        /\ result = [i \in 1..ItemsBeforeChunkOf(MinRaising) |-> SequentialMap[i]]
        /\ displayN = ItemsBeforeChunkOf(MinRaising)

\* C9 witness: two elements raise, a later future finished before an earlier
\* one, and results had been consumed when the first raising element's
\* exception surfaced.
C9_Witness ==
    /\ pc = "raised"
    /\ exc.src = "fn"
    /\ Cardinality(raising) >= 2
    /\ overtaken
    /\ Len(result) >= 1
    /\ exc.arg = MinRaising

AllLazy == \A k \in 1..Len(iterables) : ~iterables[k].sized

\* C6 as stated: the returned list is as long as the shortest input, or as
\* long as total when total is given and the inputs have no defined length.
C6_LengthShortestOrTotal ==
    pc = "returned" =>
        Len(retval.list) = IF OptionGiven("total") /\ AllLazy
                             THEN tqdm_kwargs["total"]
                             ELSE ZipLen(iterables)

\* C6 amended: whenever the call returns, the returned list is as long as the
\* shortest input, whether or not total is given and whether or not the
\* inputs have a defined length; a call over inputs that never end does not
\* return.
C6_LengthShortest ==
    pc = "returned" =>
        /\ ~AllUnbounded(iterables)
        /\ Len(retval.list) = ZipLen(iterables)
        /\ \A k \in 1..Len(iterables) : iterables[k].unbounded \/ Len(retval.list) <= iterables[k].count

\* C6 witness: the second input is shorter than the first and the call
\* returned a list as long as the second.
C6_Witness ==
    /\ pc = "returned"
    /\ Len(iterables) = 2
    /\ ~iterables[1].unbounded
    /\ iterables[2].count < iterables[1].count
    /\ Len(retval.list) = iterables[2].count
    /\ iterables[2].count >= 2

\* the options the caller means the display to get: total, and every option
\* of the call but tqdm_class, max_workers and chunksize
ExpectedDisplayOptions ==
    [n \in ((DOMAIN tqdm_kwargs) \cup {"total"}) \ {"tqdm_class", "max_workers", "chunksize"} |->
        IF n \in DOMAIN tqdm_kwargs THEN tqdm_kwargs[n] ELSE iterables[1].count]

\* the display count equals the number of results collected and never
\* exceeds the number of completed items; at a return it is the length of
\* the returned list
DisplayCountInv ==
    /\ displayN = Len(result)
    /\ displayN <= CompletedItems
    /\ pc = "returned" => displayN = Len(retval.list)

\* the display count never decreases
DisplayMonotone == [][displayN' >= displayN]_vars

\* C10: the display advances by one per result consumed (its count is the
\* number of results collected, at most the number of completed items, and
\* at a return the length of the returned list), and the display is built
\* with total plus the caller's remaining options.
C10_DisplayCountAndOptions ==
    /\ DisplayCountInv
    /\ display.built => display.options = ExpectedDisplayOptions

\* ------------------------------------------- claims on option resolution
\* past the entry point (thread_map / process_map has run)
Entered == pc # "call"

\* the options were resolved (lines 32-37 ran to the end)
Resolved == pc \notin {"call", "executor_map", "raised"}

SomeInputAtLeast(n) ==
    \E k \in 1..Len(iterables) :
        (IF iterables[k].sized THEN iterables[k].count ELSE iterables[k].hint) >= n

\* C4: exactly one chunk-size warning is emitted when the call is
\* process_map, chunksize is not given and an input has length (its length
\* hint when it has no length) >= 1000; none for shorter inputs, for an
\* explicit chunksize (1 included) and for thread_map. The warning leaves
\* the resolved chunksize at its default and the call goes on.
C4_WarningExactlyOnce ==
    /\ Entered =>
          warnings = IF kind = "process" /\ ~OptionGiven("chunksize") /\ SomeInputAtLeast(1000)
                       THEN 1 ELSE 0
    /\ ~Entered => warnings = 0
    /\ (warnings > 0 /\ Resolved) => chunksize = 1
    /\ (warnings > 0 /\ pc = "raised") => exc.src \in {"deepcopy", "len", "cpu_count"}

\* C4 witness: a process_map call over an input of exactly 1000 items warned
\* once and went on to build its pool.
C4_Witness ==
    /\ kind = "process"
    /\ warnings = 1
    /\ pc = "map"
    /\ \A k \in 1..Len(iterables) : iterables[k].count <= 1000

\* the CPU count the claim expects: the detected one, or 4 when detection
\* fails or is unavailable
ExpectedCpus == IF cpu.status = "ok" THEN cpu.n ELSE 4

ExpectedMaxWorkers ==
    IF OptionGiven("max_workers") THEN tqdm_kwargs["max_workers"]
    ELSE Min(32, ExpectedCpus + 4)

\* the call got as far as line 36 (the options were copied and total resolved)
ReachedMaxWorkers == Resolved \/ (pc = "raised" /\ exc.src = "cpu_count")

\* C5: without max_workers from the caller the pool gets
\* min(32, cpu_count + 4), with 4 CPUs assumed when the detection fails or
\* is unavailable (so 8); a caller's max_workers is used unchanged; the
\* default is never above 32.
C5_DefaultMaxWorkers ==
    ReachedMaxWorkers =>
        /\ pc # "raised"
        /\ max_workers = ExpectedMaxWorkers
        /\ pc = "map" => pool.max_workers = ExpectedMaxWorkers
        /\ ~OptionGiven("max_workers") => max_workers <= 32

FirstHasNoLength == Len(iterables) > 0 /\ ~iterables[1].sized

\* C7 as stated: a total from the caller reaches the display options
\* unchanged and the length of the first input is never queried; without
\* it total is the length of the first input; without it and with a first
\* input that has no length the call fails with the length error and
\* returns no list.
C7_TotalResolution ==
    /\ OptionGiven("total") =>
          /\ lenQueried = {}
          /\ Resolved => kwargs["total"] = tqdm_kwargs["total"]
    /\ (~OptionGiven("total") /\ Resolved) => kwargs["total"] = iterables[1].count
    /\ (~OptionGiven("total") /\ FirstHasNoLength /\ pc \notin {"call", "executor_map"}) =>
          /\ pc = "raised"
          /\ exc = TypeErrorLen
          /\ ~retval.set

\* C7 amended: a total from the caller reaches the display options unchanged
\* and _executor_map never takes len() of the first input (process_map still
\* takes the length hint of every input when chunksize is not given);
\* without it total is the length of the first input; without it and with a
\* first input that has no length the call raises before a pool is built
\* (the length error, or the deepcopy error when an option cannot be
\* copied) and returns no list.
C7_TotalResolutionAmended ==
    /\ OptionGiven("total") =>
          /\ "len" \notin lenQueried
          /\ lenQueried # {} => kind = "process" /\ ~OptionGiven("chunksize") /\ iterables[1].sized
          /\ (kind = "process" /\ ~OptionGiven("chunksize") /\ iterables[1].sized /\ Entered) =>
                lenQueried = {"length_hint"}
          /\ Resolved => kwargs["total"] = tqdm_kwargs["total"]
    /\ (~OptionGiven("total") /\ Resolved) =>
          /\ iterables[1].sized
          /\ kwargs["total"] = iterables[1].count
    /\ (~OptionGiven("total") /\ FirstHasNoLength /\ pc \notin {"call", "executor_map"}) =>
          /\ pc = "raised"
          /\ exc \in {TypeErrorLen, TypeErrorDeepcopy}
          /\ CanDeepCopy(tqdm_kwargs) => exc = TypeErrorLen
          /\ ~retval.set
          /\ pool.state = "none"

\* C7 witness: a call without total over a first input without length ended
\* with the length error.
C7_Witness ==
    /\ ~OptionGiven("total")
    /\ FirstHasNoLength
    /\ pc = "raised"
    /\ exc = TypeErrorLen

====
